---- MODULE Spec2Model ----
(***************************************************************************)
(* Shamir secret recovery by Lagrange interpolation and majority vote      *)
(* (src/index.js).  The functions of the script are pure; each is modelled *)
(* as an operator computed the way the code computes it, and as the steps  *)
(* of a call whose arguments Init draws from bounded sets.                 *)
(*                                                                         *)
(* BigInt values are integers.  A string is a sequence of code points.     *)
(* A fraction is the two-element array <<n, d>> of the code.  A call that  *)
(* throws ends in Thrown(kind); one that returns ends in Returned(value).  *)
(***************************************************************************)
EXTENDS Integers, Sequences, FiniteSets, TLC

VARIABLES fn, pc, base, valueStr, arr, r, points, k, i, result, basis,
          allCombos, freq, ret

vars == <<fn, pc, base, valueStr, arr, r, points, k, i, result, basis,
          allCombos, freq, ret>>

(***************************************************************************)
(* Bounds of the model.                                                    *)
(***************************************************************************)
MaxLen == 3     \* longest encoded value string
MaxX == 3       \* abscissas are 0..MaxX
MaxY == 1       \* ordinates of free points are 0..MaxY
MaxCoef == 2    \* polynomial coefficients are 0..MaxCoef
MaxK == 3       \* longest point list handed to lagrangeAtZero
MaxN == 3       \* longest point list handed to findSecret
MaxArr == 4     \* longest array handed to combinations
MaxElem == 2    \* array elements are 0..MaxElem

(***************************************************************************)
(* Outcomes of a call.                                                     *)
(***************************************************************************)
Pending == [kind |-> "pending"]
Returned(v) == [kind |-> "return", value |-> v]
Thrown(e) == [kind |-> "throw", error |-> e]

\* Inside lagrangeAtZero the only throw is BigInt division by zero (RangeError);
\* a fraction-valued expression that threw is the empty array.
DivisionByZero == <<>>
IsThrown(f) == f = DivisionByZero

Abs(a) == IF a < 0 THEN -a ELSE a

\* BigInt division truncates toward zero; b # 0.
BigIntDiv(a, b) ==
    IF (a < 0) = (b < 0) THEN Abs(a) \div Abs(b) ELSE -(Abs(a) \div Abs(b))

(***************************************************************************)
(* lagrangeAtZero and its inner helpers.                                   *)
(***************************************************************************)
RECURSIVE gcdLoop(_, _)
gcdLoop(a, b) == IF b = 0 THEN a ELSE gcdLoop(b, a % b)

gcd(a, b) == gcdLoop(Abs(a), Abs(b))

\* simplify answering 0/1 when the gcd is 0n instead of dividing by it.
simplifyZeroGuard(n, d) ==
    LET n1 == IF d < 0 THEN -n ELSE n
        d1 == IF d < 0 THEN -d ELSE d
        g == gcd(IF n1 < 0 THEN -n1 ELSE n1, d1)
    IN  IF g = 0 THEN <<0, 1>>
        ELSE <<BigIntDiv(n1, g), BigIntDiv(d1, g)>>

\* n / g and d / g throw RangeError (division by zero) when g = 0n.
simplify(n, d) ==
    LET n1 == IF d < 0 THEN -n ELSE n
        d1 == IF d < 0 THEN -d ELSE d
        g == gcd(IF n1 < 0 THEN -n1 ELSE n1, d1)
    IN  IF g = 0 THEN DivisionByZero
        ELSE <<BigIntDiv(n1, g), BigIntDiv(d1, g)>>

\* addFrac with the second numerator left unscaled by d1.
addFracUnscaled(f1, f2) ==
    IF IsThrown(f1) THEN f1
    ELSE IF IsThrown(f2) THEN f2
    ELSE simplify(f1[1] * f2[2] + f2[1], f1[2] * f2[2])

\* An argument that threw never reaches the call.
addFrac(f1, f2) ==
    IF IsThrown(f1) THEN f1
    ELSE IF IsThrown(f2) THEN f2
    ELSE simplify(f1[1] * f2[2] + f2[1] * f1[2], f1[2] * f2[2])

mulFrac(f1, f2) ==
    IF IsThrown(f1) THEN f1
    ELSE IF IsThrown(f2) THEN f2
    ELSE simplify(f1[1] * f2[1], f1[2] * f2[2])

\* The inner loop taking only the indices after ii (j > i for i !== j).
RECURSIVE innerLoopAfter(_, _, _, _, _)
innerLoopAfter(pts, ii, j, num, den) ==
    IF j > Len(pts) THEN <<num, den>>
    ELSE IF j > ii
         THEN innerLoopAfter(pts, ii, j + 1,
                             num * (0 - pts[j].x), den * (pts[ii].x - pts[j].x))
         ELSE innerLoopAfter(pts, ii, j + 1, num, den)

\* The inner loop over j: <<num, den>> after the indices j..Len(pts).
RECURSIVE innerLoop(_, _, _, _, _)
innerLoop(pts, ii, j, num, den) ==
    IF j > Len(pts) THEN <<num, den>>
    ELSE IF ii # j
         THEN innerLoop(pts, ii, j + 1,
                        num * (0 - pts[j].x), den * (pts[ii].x - pts[j].x))
         ELSE innerLoop(pts, ii, j + 1, num, den)

\* simplify(num, den) of iteration ii of the outer loop.
basisAtZero(pts, ii) ==
    LET nd == innerLoop(pts, ii, 1, 1, 1) IN simplify(nd[1], nd[2])

\* The value assigned to result by iteration ii of the outer loop.
iteration(pts, ii, res) ==
    addFrac(res, mulFrac(<<pts[ii].y, 1>>, basisAtZero(pts, ii)))

RECURSIVE outerLoop(_, _, _)
outerLoop(pts, ii, res) ==
    IF IsThrown(res) THEN res
    ELSE IF ii > Len(pts) THEN res
    ELSE outerLoop(pts, ii + 1, iteration(pts, ii, res))

\* return result[0] / result[1]
finalDivision(res) ==
    IF res[2] = 0 THEN Thrown("RangeError")
    ELSE Returned(BigIntDiv(res[1], res[2]))

lagrangeAtZero(pts) ==
    LET res == outerLoop(pts, 1, <<0, 1>>)
    IN  IF IsThrown(res) THEN Thrown("RangeError") ELSE finalDivision(res)

(***************************************************************************)
(* Inputs.                                                                 *)
(***************************************************************************)
SeqsUpTo(S, n) == UNION {[1..m -> S] : m \in 0..n}

Xs == 0..MaxX
Ys == 0..MaxY
Coefs == 0..MaxCoef
FreePoints == [x : Xs, y : Ys]

RECURSIVE evalPoly(_, _, _)
evalPoly(c, x, j) == IF j > Len(c) THEN 0 ELSE c[j] + x * evalPoly(c, x, j + 1)

DistinctX(pts) ==
    \A a, b \in 1..Len(pts) : a # b => pts[a].x # pts[b].x

\* k points (x, f(x)) of a polynomial f with k coefficients, c[1] = f(0).
PolyPoints ==
    {[j \in 1..Len(xs) |-> [x |-> xs[j], y |-> evalPoly(c, xs[j], 1)]] :
        <<c, xs>> \in UNION {[1..m -> Coefs] \X
                               {s \in [1..m -> Xs] : \A a, b \in 1..m : a # b => s[a] # s[b]}
                             : m \in 1..MaxK}}

LagrangeInputs == SeqsUpTo(FreePoints, MaxK)

(***************************************************************************)
(* A call of lagrangeAtZero, one outer iteration per step.                 *)
(***************************************************************************)
InitLagrange ==
    /\ fn = "lagrangeAtZero"
    /\ pc = "lagrangeAtZero"
    /\ points \in LagrangeInputs
    /\ base = 0 /\ valueStr = <<>> /\ arr = <<>> /\ r = 0
    /\ k = 0 /\ i = 1 /\ result = <<0, 1>> /\ basis = <<0, 1>>
    /\ allCombos = <<>> /\ freq = <<>> /\ ret = Pending

LagrangeIterate ==
    /\ pc = "lagrangeAtZero"
    /\ i <= Len(points)
    /\ LET b == basisAtZero(points, i)
           res == iteration(points, i, result)
       IN  /\ basis' = IF IsThrown(b) THEN basis ELSE b
           /\ IF IsThrown(res)
              THEN /\ pc' = "threw"
                   /\ ret' = Thrown("RangeError")
                   /\ UNCHANGED <<i, result>>
              ELSE /\ result' = res
                   /\ i' = i + 1
                   /\ UNCHANGED <<pc, ret>>
    /\ UNCHANGED <<fn, base, valueStr, arr, r, points, k, allCombos, freq>>

LagrangeReturn ==
    /\ pc = "lagrangeAtZero"
    /\ i > Len(points)
    /\ ret' = finalDivision(result)
    /\ pc' = IF finalDivision(result).kind = "throw" THEN "threw" ELSE "done"
    /\ UNCHANGED <<fn, base, valueStr, arr, r, points, k, i, result, basis,
                   allCombos, freq>>

NextLagrange == LagrangeIterate \/ LagrangeReturn

SpecLagrange == InitLagrange /\ [][NextLagrange]_vars

\* Three points of f(x) = 2x + 3.
ExampleLine == <<[x |-> 1, y |-> 5], [x |-> 2, y |-> 7], [x |-> 3, y |-> 9]>>

\* A call of lagrangeAtZero on points of a polynomial.
InitPolynomial ==
    /\ fn = "lagrangeAtZero"
    /\ pc = "lagrangeAtZero"
    /\ points \in PolyPoints \cup {ExampleLine}
    /\ base = 0 /\ valueStr = <<>> /\ arr = <<>> /\ r = 0
    /\ k = 0 /\ i = 1 /\ result = <<0, 1>> /\ basis = <<0, 1>>
    /\ allCombos = <<>> /\ freq = <<>> /\ ret = Pending

SpecPolynomial == InitPolynomial /\ [][NextLagrange]_vars

(***************************************************************************)
(* decodeValue.  A character is its code point: "0" is 48, "A" is 65,      *)
(* "a" is 97.                                                              *)
(***************************************************************************)
\* String.prototype.toLowerCase on the code points of DecodeAlphabet.
toLowerCase(s) ==
    [j \in 1..Len(s) |-> IF s[j] \in 65..90 THEN s[j] + 32 ELSE s[j]]

\* parseInt called without the radix bound on the digit.
parseIntAnyRadix(char, radix) ==
    LET v == IF char \in 48..57 THEN char - 48
             ELSE IF char \in 97..122 THEN char - 87
             ELSE IF char \in 65..90 THEN char - 55
             ELSE 36
    IN  IF v < 36 THEN <<v>> ELSE <<>>

\* parseInt(char, radix) of a one-character string: <<v>> is the number v,
\* <<>> is NaN (no digit of that radix at the start of the string).
parseInt(char, radix) ==
    LET v == IF char \in 48..57 THEN char - 48
             ELSE IF char \in 97..122 THEN char - 87
             ELSE IF char \in 65..90 THEN char - 55
             ELSE radix
    IN  IF v < radix THEN <<v>> ELSE <<>>

\* The for-of loop; BigInt(NaN) throws RangeError.
RECURSIVE decodeLoop(_, _, _, _)
decodeLoop(bigBase, s, j, res) ==
    IF j > Len(s) THEN Returned(res)
    ELSE LET digit == parseInt(s[j], bigBase)
         IN  IF digit = <<>> THEN Thrown("RangeError")
             ELSE decodeLoop(bigBase, s, j + 1, res * bigBase + digit[1])

decodeValue(b, str) == decodeLoop(b, toLowerCase(str), 1, 0)

\* "0" "1" "2" "9" "F" "Z" "f" "z", and " " "-" "{" which are no digits.
DecodeAlphabet == {48, 49, 50, 57, 70, 90, 102, 122, 32, 45, 123}
Bases == 2..36

InitDecode ==
    /\ fn = "decodeValue"
    /\ pc = "decodeValue"
    /\ base \in Bases
    /\ valueStr \in SeqsUpTo(DecodeAlphabet, MaxLen)
    /\ arr = <<>> /\ r = 0 /\ points = <<>> /\ k = 0 /\ i = 0
    /\ result = <<0, 1>> /\ basis = <<0, 1>>
    /\ allCombos = <<>> /\ freq = <<>> /\ ret = Pending

DecodeCall ==
    /\ pc = "decodeValue"
    /\ ret' = decodeValue(base, valueStr)
    /\ pc' = IF decodeValue(base, valueStr).kind = "throw" THEN "threw" ELSE "done"
    /\ UNCHANGED <<fn, base, valueStr, arr, r, points, k, i, result, basis,
                   allCombos, freq>>

NextDecode == DecodeCall

SpecDecode == InitDecode /\ [][NextDecode]_vars

(***************************************************************************)
(* combinations.                                                           *)
(***************************************************************************)
\* combinations listing the subsets without the first element first.
RECURSIVE combinationsRestFirst(_, _)
combinationsRestFirst(a, n) ==
    IF n = 0 THEN << <<>> >>
    ELSE IF Len(a) < n THEN <<>>
    ELSE LET first == Head(a)
             rest == Tail(a)
             withFirst == combinationsRestFirst(rest, n - 1)
         IN  combinationsRestFirst(rest, n)
                 \o [j \in 1..Len(withFirst) |-> <<first>> \o withFirst[j]]

RECURSIVE combinations(_, _)
combinations(a, n) ==
    IF n = 0 THEN << <<>> >>
    ELSE IF Len(a) < n THEN <<>>
    ELSE LET first == Head(a)
             rest == Tail(a)
             withFirst == combinations(rest, n - 1)
         IN  [j \in 1..Len(withFirst) |-> <<first>> \o withFirst[j]]
                 \o combinations(rest, n)

Elems == 0..MaxElem

InitCombinations ==
    /\ fn = "combinations"
    /\ pc = "combinations"
    /\ arr \in SeqsUpTo(Elems, MaxArr)
    /\ r \in 0..(Len(arr) + 1)
    /\ base = 0 /\ valueStr = <<>> /\ points = <<>> /\ k = 0 /\ i = 0
    /\ result = <<0, 1>> /\ basis = <<0, 1>>
    /\ allCombos = <<>> /\ freq = <<>> /\ ret = Pending

CombinationsCall ==
    /\ pc = "combinations"
    /\ ret' = Returned(combinations(arr, r))
    /\ pc' = "done"
    /\ UNCHANGED <<fn, base, valueStr, arr, r, points, k, i, result, basis,
                   allCombos, freq>>

NextCombinations == CombinationsCall

SpecCombinations == InitCombinations /\ [][NextCombinations]_vars

(***************************************************************************)
(* findSecret.  freq is the Map in insertion order: a sequence of entries  *)
(* [key, count].  best is <<>> for null and <<string>> for a string.       *)
(***************************************************************************)
\* BigInt.prototype.toString(): decimal digits, "-" (45) first when negative.
RECURSIVE digitsOf(_)
digitsOf(n) ==
    IF n < 10 THEN <<48 + n>> ELSE digitsOf(n \div 10) \o <<48 + (n % 10)>>

toString(n) == IF n < 0 THEN <<45>> \o digitsOf(-n) ELSE digitsOf(n)

\* BigInt(string) on a decimal literal with an optional "-"; the empty string
\* is 0n; anything else throws SyntaxError.
RECURSIVE digitsValue(_, _, _)
digitsValue(s, j, acc) ==
    IF j > Len(s) THEN Returned(acc)
    ELSE IF s[j] \in 48..57 THEN digitsValue(s, j + 1, acc * 10 + (s[j] - 48))
    ELSE Thrown("SyntaxError")

StringToBigInt(s) ==
    IF Len(s) > 1 /\ s[1] = 45
    THEN LET v == digitsValue(Tail(s), 1, 0)
         IN  IF v.kind = "throw" THEN v ELSE Returned(-v.value)
    ELSE digitsValue(s, 1, 0)

\* BigInt(best) with null read as 0n.
BigIntNullAsZero(best) ==
    IF best = <<>> THEN Returned(0) ELSE StringToBigInt(best[1])

\* BigInt(best): BigInt(null) throws TypeError.
BigInt(best) ==
    IF best = <<>> THEN Thrown("TypeError") ELSE StringToBigInt(best[1])

\* freq.get(key) || 0
mapGet(m, key) ==
    IF \E j \in 1..Len(m) : m[j].key = key
    THEN m[CHOOSE j \in 1..Len(m) : m[j].key = key].count
    ELSE 0

\* freq.set(key, count): an existing key keeps its place, a new one goes last.
mapSet(m, key, count) ==
    IF \E j \in 1..Len(m) : m[j].key = key
    THEN [j \in 1..Len(m) |-> IF m[j].key = key
                               THEN [key |-> key, count |-> count] ELSE m[j]]
    ELSE Append(m, [key |-> key, count |-> count])

\* The first loop of findSecret; a throw of lagrangeAtZero leaves it.
RECURSIVE tallyLoop(_, _, _)
tallyLoop(combos, j, m) ==
    IF j > Len(combos) THEN Returned(m)
    ELSE LET v == lagrangeAtZero(combos[j])
         IN  IF v.kind = "throw" THEN v
             ELSE LET secret == toString(v.value)
                  IN  tallyLoop(combos, j + 1,
                                mapSet(m, secret, mapGet(m, secret) + 1))

\* The second loop with count >= bestCount: the last of the leaders wins.
RECURSIVE selectLoopLast(_, _, _, _)
selectLoopLast(m, j, best, bestCount) ==
    IF j > Len(m) THEN <<best, bestCount>>
    ELSE IF m[j].count >= bestCount
         THEN selectLoopLast(m, j + 1, <<m[j].key>>, m[j].count)
         ELSE selectLoopLast(m, j + 1, best, bestCount)

\* The second loop of findSecret: <<best, bestCount>>.
RECURSIVE selectLoop(_, _, _, _)
selectLoop(m, j, best, bestCount) ==
    IF j > Len(m) THEN <<best, bestCount>>
    ELSE IF m[j].count > bestCount
         THEN selectLoop(m, j + 1, <<m[j].key>>, m[j].count)
         ELSE selectLoop(m, j + 1, best, bestCount)

\* The selection answering the first entry of the tally.
selectFirstEntry(m) ==
    IF m = <<>> THEN << <<>>, 0 >> ELSE << <<m[1].key>>, m[1].count >>

selectBest(m) == selectLoop(m, 1, <<>>, 0)

\* return { secret: BigInt(best), count: bestCount, total: allCombos.length }
returnRecord(combos, m) ==
    LET bb == selectBest(m)
        secret == BigInt(bb[1])
    IN  IF secret.kind = "throw" THEN secret
        ELSE Returned([secret |-> secret.value, count |-> bb[2],
                       total |-> Len(combos)])

\* Three correct shares of f(x) = 2x + 3 and one corrupted share.
ExamplePoints ==
    <<[x |-> 1, y |-> 5], [x |-> 2, y |-> 7], [x |-> 3, y |-> 9],
      [x |-> 4, y |-> 99]>>

FindSecretInputs == SeqsUpTo(FreePoints, MaxN) \cup {ExamplePoints}

InitFindSecret ==
    /\ fn = "findSecret"
    /\ pc = "findSecret"
    /\ points \in FindSecretInputs
    /\ k \in 0..(Len(points) + 1)
    /\ base = 0 /\ valueStr = <<>> /\ arr = <<>> /\ r = 0 /\ i = 0
    /\ result = <<0, 1>> /\ basis = <<0, 1>>
    /\ allCombos = <<>> /\ freq = <<>> /\ ret = Pending

FindSecretEnumerate ==
    /\ pc = "findSecret"
    /\ allCombos' = combinations(points, k)
    /\ pc' = "tally"
    /\ UNCHANGED <<fn, base, valueStr, arr, r, points, k, i, result, basis, freq, ret>>

FindSecretTally ==
    /\ pc = "tally"
    /\ LET t == tallyLoop(allCombos, 1, <<>>)
       IN  IF t.kind = "throw"
           THEN pc' = "threw" /\ ret' = t /\ UNCHANGED freq
           ELSE pc' = "select" /\ freq' = t.value /\ UNCHANGED ret
    /\ UNCHANGED <<fn, base, valueStr, arr, r, points, k, i, result, basis, allCombos>>

FindSecretSelect ==
    /\ pc = "select"
    /\ ret' = returnRecord(allCombos, freq)
    /\ pc' = IF returnRecord(allCombos, freq).kind = "throw" THEN "threw" ELSE "done"
    /\ UNCHANGED <<fn, base, valueStr, arr, r, points, k, i, result, basis,
                   allCombos, freq>>

NextFindSecret == FindSecretEnumerate \/ FindSecretTally \/ FindSecretSelect

SpecFindSecret == InitFindSecret /\ [][NextFindSecret]_vars

\* A call of lagrangeAtZero or of findSecret.
SpecInterpolateRecover ==
    (InitLagrange \/ InitFindSecret) /\ [][NextLagrange \/ NextFindSecret]_vars

(***************************************************************************)
(* Vocabulary of the properties.                                           *)
(***************************************************************************)
Terminated == pc \in {"done", "threw"}

RECURSIVE Binomial(_, _)
Binomial(n, m) ==
    IF m = 0 THEN 1
    ELSE IF n = 0 THEN 0
    ELSE Binomial(n - 1, m - 1) + Binomial(n - 1, m)

IndexSets(n, m) == {S \in SUBSET (1..n) : Cardinality(S) = m}

\* The elements of s at the indices of S, in increasing index order.
RECURSIVE PickFrom(_, _, _)
PickFrom(s, S, j) ==
    IF j > Len(s) THEN <<>>
    ELSE (IF j \in S THEN <<s[j]>> ELSE <<>>) \o PickFrom(s, S, j + 1)

\* The pairs <<S, v>>: lagrangeAtZero gives v for the points at the index set S.
SubsetValues(pts, m) ==
    {<<S, lagrangeAtZero(PickFrom(pts, S, 1)).value>> : S \in IndexSets(Len(pts), m)}

\* The number of pairs of valued that carry the value v.
VotesFor(valued, v) == Cardinality({p \in valued : p[2] = v})

PermutationsOf(s) ==
    {[j \in 1..Len(s) |-> s[f[j]]] :
        f \in {g \in [1..Len(s) -> 1..Len(s)] :
                  \A a, b \in 1..Len(s) : a # b => g[a] # g[b]}}

Point(x, y) == [x |-> x, y |-> y]

(***************************************************************************)
(* C1.  For points with pairwise distinct x and 1 <= k <= n, findSecret    *)
(* returns total = C(n,k); whenever one value is produced by strictly more *)
(* size-k subsets than every other value, the returned secret is that      *)
(* value and the returned count is its number of subsets.  For             *)
(* (1,5),(2,7),(3,9),(4,99) and k = 2 it returns secret 3, count 3,        *)
(* total 6.                                                                *)
(***************************************************************************)
C1_MajorityVote ==
    (Terminated /\ DistinctX(points) /\ 1 <= k /\ k <= Len(points)) =>
        LET valued == SubsetValues(points, k)
        IN  /\ ret.kind = "return"
            /\ ret.value.total = Binomial(Len(points), k)
            /\ \A p \in valued :
                  (\A q \in valued :
                      q[2] # p[2] => VotesFor(valued, q[2]) < VotesFor(valued, p[2]))
                  => /\ ret.value.secret = p[2]
                     /\ ret.value.count = VotesFor(valued, p[2])
            /\ (points = ExamplePoints /\ k = 2) =>
                  ret.value = [secret |-> 3, count |-> 3, total |-> 6]

C1_Witness ==
    /\ pc = "done" /\ points = ExamplePoints /\ k = 2
    /\ ret.value.secret = 3 /\ ret.value.count = 3

(***************************************************************************)
(* C2.  For k points (x_i, f(x_i)) with pairwise distinct x_i of a         *)
(* polynomial f with integer coefficients and degree at most k-1,          *)
(* lagrangeAtZero returns f(0), the running sum ending as the fraction     *)
(* f(0)/1; (1,5),(2,7),(3,9) give 3.                                       *)
(***************************************************************************)
C2_ExactConstantTerm ==
    (Terminated /\ Len(points) >= 1 /\ DistinctX(points)) =>
        /\ \A c \in [1..Len(points) -> Coefs] :
              (\A j \in 1..Len(points) : points[j].y = evalPoly(c, points[j].x, 1))
                  => /\ pc = "done"
                     /\ result = <<c[1], 1>>
                     /\ ret.kind = "return" /\ ret.value = c[1]
        /\ points = ExampleLine =>
              (pc = "done" /\ ret.kind = "return" /\ ret.value = 3)

C2_Witness ==
    /\ pc = "done"
    /\ points = ExampleLine
    /\ ret.value = 3

(***************************************************************************)
(* C3.  When the points have pairwise distinct x and the final reduced     *)
(* fraction has a denominator other than 1, lagrangeAtZero reports an      *)
(* error and returns no integer.                                           *)
(***************************************************************************)
C3_NonIntegerIsError ==
    (Terminated /\ DistinctX(points) /\ i > Len(points) /\ result[2] # 1)
        => ret.kind = "throw"

(***************************************************************************)
(* C4.  Two or more candidates share the highest count of the tally.       *)
(***************************************************************************)
MaxCount(m) == CHOOSE c \in {m[j].count : j \in 1..Len(m)} :
                   \A j \in 1..Len(m) : m[j].count <= c

Tied(m) ==
    /\ Len(m) >= 2
    /\ Cardinality({j \in 1..Len(m) : m[j].count = MaxCount(m)}) >= 2

\* The pairs <<j, v>>: lagrangeAtZero gives v for the j-th subset of allCombos.
ComboValues ==
    {<<j, lagrangeAtZero(allCombos[j]).value>> : j \in 1..Len(allCombos)}

\* The earliest subset, in enumeration order, whose value has the most votes.
FirstLeader(valued) ==
    CHOOSE p \in valued :
        /\ \A q \in valued : VotesFor(valued, q[2]) <= VotesFor(valued, p[2])
        /\ \A q \in valued :
              q[1] < p[1] => VotesFor(valued, q[2]) < VotesFor(valued, p[2])

(***************************************************************************)
(* C4 as stated.  When the tally has no unique maximum, findSecret does    *)
(* not return a record naming one of the tied candidates as the secret.    *)
(***************************************************************************)
C4_TieIsSurfaced ==
    (Terminated /\ Tied(freq)) => ret.kind # "return"

(***************************************************************************)
(* C4 as amended.  When the tally has no unique maximum, findSecret        *)
(* returns a record all the same: its secret is the tied value that the    *)
(* earliest subset in enumeration order produced, its count that value's   *)
(* number of subsets, its total the number of subsets.                     *)
(***************************************************************************)
C4_TieReturnsFirstLeader ==
    (Terminated /\ Tied(freq)) =>
        LET valued == ComboValues
            leader == FirstLeader(valued)
        IN  /\ ret.kind = "return"
            /\ ret.value.secret = leader[2]
            /\ ret.value.count = VotesFor(valued, leader[2])
            /\ ret.value.count = MaxCount(freq)
            /\ ret.value.total = Len(allCombos)
            /\ \E q \in valued :
                  /\ q[2] # leader[2]
                  /\ VotesFor(valued, q[2]) = VotesFor(valued, leader[2])

C4_Witness ==
    /\ pc = "done" /\ Tied(freq)
    /\ \E q \in ComboValues :
          /\ VotesFor(ComboValues, q[2]) = ret.value.count
          /\ q[2] # ret.value.secret

(***************************************************************************)
(* C5.  A call of lagrangeAtZero on points two of which share an x ends in *)
(* an error, whatever the y values; a call of findSecret on a list with a  *)
(* duplicated x and k >= 2 ends in an error and returns no record.         *)
(***************************************************************************)
C5_DuplicateAbscissaThrows ==
    /\ (fn = "lagrangeAtZero" /\ Terminated /\ ~DistinctX(points))
           => (pc = "threw" /\ ret.kind = "throw")
    /\ (fn = "findSecret" /\ Terminated /\ ~DistinctX(points) /\ k >= 2)
           => (pc = "threw" /\ ret.kind = "throw")

C5_Witness ==
    /\ fn = "findSecret" /\ pc = "threw" /\ k = 2 /\ Len(allCombos) = 3
    /\ points = <<Point(0, 0), Point(1, 1), Point(0, 1)>>

(***************************************************************************)
(* C6.  For k greater than the number of points, findSecret fails with an  *)
(* error and returns no record.                                            *)
(***************************************************************************)
C6_InsufficientSharesThrows ==
    (k > Len(points)) =>
        /\ pc # "done"
        /\ ret.kind # "return"
        /\ pc # "findSecret" => allCombos = <<>>
        /\ pc = "threw" => ret.kind = "throw"

C6_Witness ==
    /\ pc = "threw" /\ Len(points) = 2 /\ k = 3 /\ ret.kind = "throw"

(***************************************************************************)
(* C7.  For points with pairwise distinct x, lagrangeAtZero returns the    *)
(* same integer for every permutation of the point list.                   *)
(***************************************************************************)
C7_OrderInvariance ==
    (Terminated /\ DistinctX(points)) =>
        /\ ret.kind = "return"
        /\ \A q \in PermutationsOf(points) :
              /\ lagrangeAtZero(q).kind = "return"
              /\ lagrangeAtZero(q).value = ret.value

C7_Witness ==
    /\ pc = "done" /\ Len(points) = 2 /\ DistinctX(points)
    /\ points[1].x > points[2].x
    /\ result[2] # 1

(***************************************************************************)
(* C8.  For a base in 2..36, decodeValue returns the positional value of   *)
(* the digits (0-9, and a-z in either case as 10..35) when every character *)
(* has a digit value below the base, 0 for the empty string, and fails     *)
(* without a value when some character has no digit value or one that is   *)
(* not below the base.                                                     *)
(***************************************************************************)
DigitValue(c) ==
    IF c \in 48..57 THEN c - 48
    ELSE IF c \in 97..122 THEN 10 + (c - 97)
    ELSE IF c \in 65..90 THEN 10 + (c - 65)
    ELSE -1

RECURSIVE Power(_, _)
Power(b, e) == IF e = 0 THEN 1 ELSE b * Power(b, e - 1)

RECURSIVE PositionalSum(_, _, _)
PositionalSum(b, s, j) ==
    IF j > Len(s) THEN 0
    ELSE DigitValue(s[j]) * Power(b, Len(s) - j) + PositionalSum(b, s, j + 1)

Canonical(f) ==
    /\ f[2] > 0
    /\ \A g \in 2..f[2] : ~(f[1] % g = 0 /\ f[2] % g = 0)

C9_FractionsCanonical == Canonical(basis) /\ Canonical(result)

(***************************************************************************)
(* C10.  combinations(arr, r) for r >= 0 returns C(n,r) subsets, each of   *)
(* length r and listing the elements at strictly increasing indices of     *)
(* arr; every index set of size r appears once, and the subsets come in    *)
(* lexicographic order of their indices; r = 0 yields one empty subset and *)
(* r > n yields the empty list.                                            *)
(***************************************************************************)
RECURSIVE LexLess(_, _, _)
LexLess(s, t, j) ==
    /\ j <= Len(s)
    /\ \/ s[j] < t[j]
       \/ s[j] = t[j] /\ LexLess(s, t, j + 1)

Indices(n) == [j \in 1..n |-> j]

C10_CombinationsEnumerate ==
    (pc = "done") =>
        LET n == Len(arr)
            out == ret.value
            idx == combinations(Indices(n), r)
        IN  /\ Len(out) = Binomial(n, r)
            /\ Len(idx) = Len(out)
            /\ \A p \in 1..Len(out) :
                  /\ Len(out[p]) = r /\ Len(idx[p]) = r
                  /\ \A j \in 1..r : idx[p][j] \in 1..n /\ out[p][j] = arr[idx[p][j]]
                  /\ \A j \in 1..(r - 1) : idx[p][j] < idx[p][j + 1]
            /\ \A p, q \in 1..Len(idx) : p < q => LexLess(idx[p], idx[q], 1)
            /\ {{idx[p][j] : j \in 1..r} : p \in 1..Len(idx)} = IndexSets(n, r)
            /\ r = 0 => out = << <<>> >>
            /\ r > n => out = <<>>

C10_Witness ==
    /\ pc = "done" /\ Len(arr) = 4 /\ r = 2 /\ Len(ret.value) = 6
    /\ arr[1] = arr[3]

====
